---- MODULE Spec2Model ----
(***************************************************************************)
(* Order lifecycle of the Pure & Desi backend: the handlers that write an  *)
(* order's payment_status / order_status and its delivery record, over one *)
(* order row and its (at most one) delivery row.                           *)
(*                                                                         *)
(* Text values the code matches by substring (courier statuses, e-mail     *)
(* addresses) are sequences of one-character strings, so that lower(),     *)
(* title() and "x in s" are computed rather than assumed.  Python's None   *)
(* is the string "None"; an absent database row is the empty sequence.     *)
(***************************************************************************)
EXTENDS Integers, Sequences, FiniteSets, TLC

\* ------------------------------------------------------------------ bounds
\* how many clock seconds of checkouts are followed
MaxClock == 3

\* ------------------------------------------------------------ text values
UpperChars == <<"A","B","C","D","E","F","G","H","I","J","K","L","M","N","O","P","Q","R","S","T","U","V","W","X","Y","Z">>
LowerChars == <<"a","b","c","d","e","f","g","h","i","j","k","l","m","n","o","p","q","r","s","t","u","v","w","x","y","z">>

IsUpper(c) == \E i \in 1..Len(UpperChars) : UpperChars[i] = c
IsLower(c) == \E i \in 1..Len(LowerChars) : LowerChars[i] = c
LowerChar(c) == IF IsUpper(c)
                THEN LowerChars[CHOOSE i \in 1..Len(UpperChars) : UpperChars[i] = c]
                ELSE c
UpperChar(c) == IF IsLower(c)
                THEN UpperChars[CHOOSE i \in 1..Len(LowerChars) : LowerChars[i] = c]
                ELSE c

\* str.lower()
str_lower(s) == [i \in 1..Len(s) |-> LowerChar(s[i])]
\* str.upper()
str_upper(s) == [i \in 1..Len(s) |-> UpperChar(s[i])]
\* str.title(): a cased character is upper-cased when it follows an uncased
\* one (or starts the string) and lower-cased otherwise
str_title(s) == [i \in 1..Len(s) |->
                   IF i = 1 \/ ~(IsUpper(s[i-1]) \/ IsLower(s[i-1]))
                   THEN UpperChar(s[i]) ELSE LowerChar(s[i])]
\* the Python expression  sub in s
Contains(sub, s) == \E i \in 1..(Len(s) - Len(sub) + 1) :
                       SubSeq(s, i, i + Len(sub) - 1) = sub

\* the keywords the handlers look for
KW_delivered        == <<"d","e","l","i","v","e","r","e","d">>
KW_transit          == <<"t","r","a","n","s","i","t">>
KW_picked           == <<"p","i","c","k","e","d">>
KW_pickup           == <<"p","i","c","k","u","p">>
KW_dispatched       == <<"d","i","s","p","a","t","c","h","e","d">>
KW_out_for_delivery == <<"o","u","t"," ","f","o","r"," ","d","e","l","i","v","e","r","y">>
KW_pickup_scheduled == <<"p","i","c","k","u","p"," ","s","c","h","e","d","u","l","e","d">>
KW_manifest         == <<"m","a","n","i","f","e","s","t">>
KW_CANCELED         == <<"C","A","N","C","E","L","E","D">>

\* statuses the code itself writes into Delivery.current_status
ST_PickupScheduled == <<"P","i","c","k","u","p"," ","S","c","h","e","d","u","l","e","d">>
ST_OrderPlaced     == <<"O","r","d","e","r"," ","P","l","a","c","e","d">>
ST_Cancelled       == <<"C","a","n","c","e","l","l","e","d">>
ST_CANCELED        == <<"C","A","N","C","E","L","E","D">>
ST_Delivered       == <<"D","e","l","i","v","e","r","e","d">>
ST_Processing      == <<"P","r","o","c","e","s","s","i","n","g">>
ST_InTransit       == <<"I","n"," ","T","r","a","n","s","i","t">>

\* statuses a courier webhook may post to /delivery/update-status
StatusUpdates == { <<"O","u","t"," ","F","o","r"," ","D","e","l","i","v","e","r","y">>, <<"D","e","l","i","v","e","r","e","d">>,
                   <<"P","i","c","k","e","d"," ","U","p"," ","A","n","d"," ","D","e","l","i","v","e","r","e","d">> }
\* shipment_status values Shiprocket's tracking API may report
TrackingStatuses == { <<"D","E","L","I","V","E","R","E","D">>, <<"I","N"," ","T","R","A","N","S","I","T">>, <<"O","U","T"," ","F","O","R"," ","D","E","L","I","V","E","R","Y">>,
                      <<"P","I","C","K","U","P"," ","S","C","H","E","D","U","L","E","D">> }
\* order status values Shiprocket's order API may report
ShiprocketOrderStatuses == { <<"c","a","n","c","e","l","e","d">>, <<"N","E","W">> }

\* the e-mail the order was placed with, and what a tracking request may send
ShippingEmail == <<"a","@","x",".","i","n">>
OtherEmail    == <<"b","@","x",".","i","n">>
RequestEmails == { <<"a","@","x",".","i","n">>, <<"A","@","X",".","I","N">>, <<"b","@","x",".","i","n">> }

\* ----------------------------------------------------------------- schema
\* OrderStatus / PaymentStatus enumerations
OrderStatuses   == {"pending", "confirmed", "processing", "shipped",
                    "delivered", "cancelled", "refunded"}
PaymentStatuses == {"pending", "paid", "failed", "refunded", "cod"}

\* class Order with the shipment reference attributes the handlers read
OrderColumns_with_shipment_refs ==
    {"order_id", "shipping_email", "payment_method", "payment_status",
     "razorpay_order_id", "razorpay_payment_id", "order_status",
     "waybill_number", "estimated_delivery", "delivered_at", "admin_notes",
     "updated_at", "shiprocket_order_id", "shipment_id", "awb_code",
     "courier_id"}

\* The attributes class Order defines (those the handlers touch).  An
\* attribute outside this set is not mapped: assigning it on an instance
\* sets a plain Python attribute that is lost with the request, and reading
\* it on an instance loaded from the database raises AttributeError.
OrderColumns == {"order_id", "shipping_email", "payment_method",
                 "payment_status", "razorpay_order_id", "razorpay_payment_id",
                 "order_status", "waybill_number", "estimated_delivery",
                 "delivered_at", "admin_notes", "updated_at"}
\* The attributes class Customer defines (those verify_admin_access touches)
CustomerColumns == {"phone", "email", "full_name", "is_active", "is_verified"}

\* rows of the customers table an admin request may name: by e-mail and by
\* phone, each with the value of the is_admin column that the migration
\* scripts add to the table
CustomerByEmail == [e \in {"user@x.in", "admin@x.in"} |-> e = "admin@x.in"]
AdminPhone      == <<"9","1","9","0","0","0","0","0","0","0","0","1">>
CustomerByPhone == [p \in {AdminPhone} |-> TRUE]
\* what an admin request may send as e-mail and as phone
AdminCallers == { [email |-> "None", phone |-> <<>>],
                  [email |-> "nobody@x.in", phone |-> <<>>],
                  [email |-> "user@x.in", phone |-> <<>>],
                  [email |-> "admin@x.in", phone |-> <<>>],
                  [email |-> "None", phone |-> <<"9","0","0","0","0","0","0","0","0","1">>] }

\* generate_order_id at clock second `timestamp`: "PD" and the timestamp
generate_order_id(timestamp) == "PD" \o ToString(timestamp)

\* the one order row followed here (the order of the first clock second), and
\* an order_id no row has
OrderId   == generate_order_id(1)
OrderRefs == {"PD1", "PD404"}

\* Python truthiness of a string-or-None value, and  a or b
Truthy(v) == v \notin {"None", ""}
PyOr(a, b) == IF Truthy(a) THEN a ELSE b

\* --------------------------------------------------------------- adapters
\* PaymentService.verify_payment: the HMAC-SHA256 of "order|payment" under
\* the key secret is the pair <<order, payment>> tagged with the secret; in
\* an unconfigured (mock) service every proof verifies.
KeySecret == "secret"
GeneratedSignature(razorpay_order_id, razorpay_payment_id) ==
    <<KeySecret, razorpay_order_id, razorpay_payment_id>>
Signatures == { GeneratedSignature("order_1", "pay_1"),
                <<"forged", "order_1", "pay_1">> }

\* PaymentService.verify_payment without the comparison of the generated
\* and the received signature
payment_service_verify_payment_unchecked(client, razorpay_order_id, razorpay_payment_id, razorpay_signature, fetchOk) ==
    IF client
    THEN [success |-> fetchOk, verified |-> fetchOk]
    ELSE [success |-> TRUE, verified |-> TRUE]

\* PaymentService.verify_payment
payment_service_verify_payment(client, razorpay_order_id, razorpay_payment_id, razorpay_signature, fetchOk) ==
    IF client
    THEN IF GeneratedSignature(razorpay_order_id, razorpay_payment_id)
              = razorpay_signature
         THEN \* client.payment.fetch may raise: caught, verified False
              [success |-> fetchOk, verified |-> fetchOk]
         ELSE [success |-> FALSE, verified |-> FALSE]
    ELSE [success |-> TRUE, verified |-> TRUE]

\* what the Shiprocket HTTP API may answer to orders/create/adhoc: an order
\* with or without an AWB, a refusal (non-2xx, or no order_id in the body),
\* or nothing (the request raises)
CreateAnswers == {"created", "created_no_awb", "rejected", "exception"}

\* ShiprocketService._create_mock_shipment
shiprocket_create_mock_shipment ==
    [success |-> TRUE, shiprocket_order_id |-> "None", shipment_id |-> "SHIP-PD1",
     awb_code |-> "SR-1", waybill |-> "SR-1"]

\* ShiprocketService.create_shipment
shiprocket_create_shipment(dbg, answer) ==
    IF dbg THEN shiprocket_create_mock_shipment
    ELSE IF answer = "created"
         THEN [success |-> TRUE, shiprocket_order_id |-> "SRO-1",
               shipment_id |-> "SID-1", awb_code |-> "AWB-1", waybill |-> "None"]
    ELSE IF answer = "created_no_awb"
         THEN [success |-> TRUE, shiprocket_order_id |-> "SRO-1",
               shipment_id |-> "SID-1", awb_code |-> "", waybill |-> "None"]
    ELSE [success |-> FALSE, shiprocket_order_id |-> "None",
          shipment_id |-> "None", awb_code |-> "None", waybill |-> "None"]

\* what the Shiprocket HTTP API may answer to a tracking or order query:
\* a status text, or no usable answer (timeout, non-200, exception)
Unavailable == <<"#">>

\* ShiprocketService._mock_tracking
shiprocket_mock_tracking == [success |-> TRUE, current_status |-> ST_InTransit]

\* ShiprocketService.track_shipment
shiprocket_track_shipment(dbg, answer) ==
    IF dbg \/ answer = Unavailable
    THEN shiprocket_mock_tracking
    ELSE [success |-> TRUE, current_status |-> answer]

\* ShiprocketService.get_order_details
shiprocket_get_order_details(dbg, answer) ==
    IF dbg \/ answer = Unavailable
    THEN [success |-> FALSE, status |-> <<>>]
    ELSE [success |-> TRUE, status |-> answer]

\* ------------------------------------------------------------- financials
\* the items of a checkout request, and the charges the frontend may send
\* with it (subtotal, shippingCharge, total)
CheckoutItems == <<[price |-> 540, quantity |-> 1]>>
FrontendCharges == [subtotal |-> 540, shipping_cost |-> 0, total |-> 540]
\* what Shiprocket's serviceability API answers for the pincode
ServiceabilityResult == [serviceable |-> TRUE, shipping_charge |-> 50, cod_charges |-> 0]

\* sum(item.price * item.quantity for item in items)
items_subtotal(items) ==
    LET partial[i \in 0..Len(items)] ==
            IF i = 0 THEN 0
            ELSE partial[i - 1] + items[i].price * items[i].quantity
    IN  partial[Len(items)]

\* calculate_shipping_cost (the definition in force, orders.py:109)
calculate_shipping_cost(subtotal, is_cod, result) ==
    IF subtotal >= 999 THEN 0
    ELSE IF result.serviceable
         THEN result.shipping_charge + (IF is_cod THEN result.cod_charges ELSE 0)
    ELSE 50

\* the subtotal, shipping cost and total create_order stores
order_charges(paymentMethod, frontendTotals) ==
    IF frontendTotals THEN FrontendCharges
    ELSE LET subtotal == items_subtotal(CheckoutItems)
             shipping_cost == calculate_shipping_cost(subtotal, paymentMethod = "cod",
                                                      ServiceabilityResult)
         IN  [subtotal |-> subtotal, shipping_cost |-> shipping_cost,
              total |-> subtotal + shipping_cost]

\* the financials of no order
NoFinancials == [subtotal |-> 0, shipping_cost |-> 0, total |-> 0]

\* ------------------------------------------------------------------ state
VARIABLES
    debug,                \* settings.debug
    razorpay_client,      \* PaymentService.client is configured
    now,                  \* datetime.now(), in seconds
    order_ids,            \* Order.order_id of the rows of the orders table
    race,                 \* two requests in flight on the order, step by step
    created,              \* the order row exists
    financials,           \* Order.subtotal, Order.shipping_cost, Order.total
    order_status,         \* Order.order_status
    payment_status,       \* Order.payment_status
    payment_method,       \* Order.payment_method
    razorpay_payment_id,  \* Order.razorpay_payment_id
    waybill_number,       \* Order.waybill_number
    shiprocket_order_id,  \* Order.shiprocket_order_id, were it a column
    admin_notes,          \* Order.admin_notes
    delivered_at,         \* Order.delivered_at is set
    delivery,             \* the order's Delivery row: <<>> or <<row>>
    resp                  \* the last request and the response it got

orderVars == <<created, financials, order_status, payment_status, payment_method,
               razorpay_payment_id, waybill_number, shiprocket_order_id,
               admin_notes, delivered_at>>
vars == <<debug, razorpay_client, now, order_ids, race, created, financials, order_status, payment_status,
          payment_method, razorpay_payment_id, waybill_number,
          shiprocket_order_id, admin_notes, delivered_at, delivery, resp>>

\* op: the handler; code: the HTTP status; success: the body's "success";
\* gateway: payment_service.verify_payment was called; shipment: what became
\* of the handler's shipment step ("created" and "failed": the adapter was
\* called; "raised": the step raised before calling it; "skipped", "exists")
Response(op, code, success, shipment) ==
    [op |-> op, code |-> code, success |-> success, gateway |-> op = "verify",
     shipment |-> shipment]

\* a new Delivery row
NewDelivery(shipment_id, waybill, status, history) ==
    [shipment_id |-> shipment_id, waybill_number |-> waybill,
     current_status |-> status, picked_up_at |-> FALSE,
     in_transit_at |-> FALSE, out_for_delivery_at |-> FALSE,
     delivered_at |-> FALSE, tracking_history |-> history]

\* db.query(Order).filter(Order.order_id == order_id).first() finds the row
OrderFound(order_id) == created /\ order_id = OrderId

\* no order row loaded / no request in flight
NoRow == [order_status |-> "None", payment_status |-> "None",
          payment_method |-> "None", razorpay_payment_id |-> "None",
          admin_notes |-> "None"]
\* (ref: order.shiprocket_order_id as the request's session last loaded it;
\* create_calls: the calls of shiprocket_service.create_shipment made by the
\* requests in flight)
NoRequest == [pc |-> "done", order |-> NoRow, delivery |-> <<>>, code |-> 0,
              ref |-> "None"]
RaceIdle == [kind |-> "none", net_change |-> FALSE,
             start |-> [order |-> NoRow, delivery |-> <<>>],
             verify |-> NoRequest, other |-> NoRequest, steps |-> <<>>,
             create_calls |-> 0]

Init ==
    /\ debug \in BOOLEAN
    /\ razorpay_client \in BOOLEAN
    /\ now = 1
    /\ order_ids = {}
    /\ race = RaceIdle
    /\ created = FALSE
    /\ financials = NoFinancials
    /\ order_status = "None"
    /\ payment_status = "None"
    /\ payment_method = "None"
    /\ razorpay_payment_id = "None"
    /\ waybill_number = "None"
    /\ shiprocket_order_id = "None"
    /\ admin_notes = "None"
    /\ delivered_at = FALSE
    /\ delivery = <<>>
    /\ resp = Response("none", 0, FALSE, "none")

\* ------------------------------------------------------------- operations
\* POST /api/orders/create.  frontendTotals: the request carries `total`, in
\* which case total_weight is never bound and building the Shiprocket
\* payload raises NameError after the order row is committed.  An order_id
\* that a row already has violates the unique constraint at the first commit:
\* IntegrityError, rolled back, 500.  The fields of the row are followed for
\* the order OrderId only.
create_order(paymentMethod, frontendTotals) ==
    LET order_id_str == generate_order_id(now)
        followed == order_id_str = OrderId
    IN
    /\ UNCHANGED <<debug, razorpay_client, now, race>>
    /\ IF order_id_str \in order_ids
       THEN /\ resp' = Response("create_order", 500, FALSE, "none")
            /\ UNCHANGED <<order_ids, orderVars, delivery>>
       ELSE /\ order_ids' = order_ids \cup {order_id_str}
            /\ created' = (created \/ followed)
            /\ financials' = IF followed THEN order_charges(paymentMethod, frontendTotals)
                              ELSE financials
            /\ payment_method' = IF followed THEN paymentMethod ELSE payment_method
            /\ payment_status' = IF ~followed THEN payment_status
                                 ELSE IF paymentMethod = "cod" THEN "cod" ELSE "pending"
            /\ razorpay_payment_id' = IF followed THEN "None" ELSE razorpay_payment_id
            /\ delivered_at' = IF followed THEN FALSE ELSE delivered_at
            /\ IF frontendTotals
               THEN /\ order_status' = IF followed THEN "confirmed" ELSE order_status
                    /\ resp' = Response("create_order", 500, FALSE, "raised")
                    /\ UNCHANGED <<waybill_number, shiprocket_order_id, admin_notes, delivery>>
               ELSE \E answer \in CreateAnswers :
                    LET r == shiprocket_create_shipment(debug, answer)
                        awb == PyOr(r.awb_code, r.waybill)
                    IN  /\ IF r.success
                           THEN /\ resp' = Response("create_order", 200, TRUE, "created")
                                /\ IF followed
                                   THEN /\ order_status' = "processing"
                                        /\ shiprocket_order_id' =
                                             IF "shiprocket_order_id" \in OrderColumns
                                             THEN r.shiprocket_order_id ELSE shiprocket_order_id
                                        /\ waybill_number' = awb
                                        /\ delivery' = <<NewDelivery(r.shipment_id, awb,
                                                              ST_PickupScheduled, <<>>)>>
                                        /\ admin_notes' = "None"
                                   ELSE UNCHANGED <<order_status, shiprocket_order_id,
                                                    waybill_number, delivery, admin_notes>>
                           ELSE /\ order_status' = IF followed THEN "confirmed" ELSE order_status
                                /\ admin_notes' = IF followed THEN "Shiprocket Failed (Live)"
                                                  ELSE admin_notes
                                /\ resp' = Response("create_order", 500, FALSE, "failed")
                                /\ UNCHANGED <<waybill_number, shiprocket_order_id, delivery>>

\* a second of the clock passes
Tick ==
    /\ now < MaxClock
    /\ now' = now + 1
    /\ UNCHANGED <<debug, razorpay_client, order_ids, race, orderVars, delivery, resp>>

\* verify_razorpay_payment with the payment update committed only after the
\* shipment step: the db_error handler's rollback then discards it
verify_razorpay_payment_late_commit(data_order_id, data_razorpay_order_id, data_razorpay_payment_id, data_razorpay_signature, fetchOk) ==
    LET result == payment_service_verify_payment(razorpay_client,
                      data_razorpay_order_id, data_razorpay_payment_id,
                      data_razorpay_signature, fetchOk)
    IN
    /\ UNCHANGED <<debug, razorpay_client, now, order_ids, race, created, financials, waybill_number,
                   admin_notes, delivered_at, order_status, payment_status,
                   payment_method, razorpay_payment_id, shiprocket_order_id,
                   delivery>>
    /\ resp' = Response("verify", 200, result.verified,
                        IF result.verified /\ OrderFound(data_order_id)
                        THEN "raised" ELSE "none")

\* POST /api/payments/razorpay/verify
verify_razorpay_payment(data_order_id, data_razorpay_order_id, data_razorpay_payment_id, data_razorpay_signature, fetchOk) ==
    LET result == payment_service_verify_payment(razorpay_client,
                      data_razorpay_order_id, data_razorpay_payment_id,
                      data_razorpay_signature, fetchOk)
    IN
    /\ UNCHANGED <<debug, razorpay_client, now, order_ids, race, created, financials, waybill_number,
                   admin_notes, delivered_at>>
    /\ IF ~result.verified
       THEN /\ resp' = Response("verify", 200, FALSE, "none")
            /\ UNCHANGED <<order_status, payment_status, payment_method,
                           razorpay_payment_id, shiprocket_order_id, delivery>>
       ELSE IF ~OrderFound(data_order_id)
       THEN /\ resp' = Response("verify", 200, TRUE, "none")
            /\ UNCHANGED <<order_status, payment_status, payment_method,
                           razorpay_payment_id, shiprocket_order_id, delivery>>
       ELSE \* payment details and CONFIRMED are committed first
            /\ payment_status' = "paid"
            /\ payment_method' = "online"
            /\ razorpay_payment_id' = data_razorpay_payment_id
            /\ IF "shiprocket_order_id" \notin OrderColumns
               THEN \* `order.shiprocket_order_id` raises AttributeError outside
                    \* the inner try: the db_error handler rolls back nothing
                    /\ order_status' = "confirmed"
                    /\ resp' = Response("verify", 200, TRUE, "raised")
                    /\ UNCHANGED <<shiprocket_order_id, delivery>>
               ELSE IF Truthy(shiprocket_order_id)
               THEN /\ order_status' = "confirmed"
                    /\ resp' = Response("verify", 200, TRUE, "skipped")
                    /\ UNCHANGED <<shiprocket_order_id, delivery>>
               ELSE \E answer \in CreateAnswers :
                    LET r == shiprocket_create_shipment(debug, answer)
                    IN  /\ IF r.success
                           THEN /\ shiprocket_order_id' = r.shiprocket_order_id
                                /\ order_status' = "processing"
                                   \* a second Delivery row for the order violates
                                   \* the unique order_id: caught, row not added
                                /\ delivery' =
                                     IF delivery = <<>>
                                     THEN <<NewDelivery(r.shipment_id,
                                              PyOr(r.awb_code, r.waybill),
                                              ST_OrderPlaced, <<ST_OrderPlaced>>)>>
                                     ELSE delivery
                                /\ resp' = Response("verify", 200, TRUE, "created")
                           ELSE /\ order_status' = "confirmed"
                                /\ resp' = Response("verify", 200, TRUE, "failed")
                                /\ UNCHANGED <<shiprocket_order_id, delivery>>

\* process_cod_order adding the courier's COD charge to the stored total
process_cod_order_adding_cod_charge(order_id) ==
    /\ resp' = Response("cod", 200, TRUE, "none")
    /\ IF OrderFound(order_id)
       THEN /\ payment_method' = "cod"
            /\ payment_status' = "pending"
            /\ financials' = [financials EXCEPT !.total = @ + 25]
       ELSE UNCHANGED <<payment_method, payment_status, financials>>
    /\ UNCHANGED <<debug, razorpay_client, now, order_ids, race, created, order_status,
                   razorpay_payment_id, waybill_number, shiprocket_order_id,
                   admin_notes, delivered_at, delivery>>

\* POST /api/payments/cod
process_cod_order(order_id) ==
    /\ resp' = Response("cod", 200, TRUE, "none")
    /\ IF OrderFound(order_id)
       THEN /\ payment_method' = "cod"
            /\ payment_status' = "pending"
       ELSE UNCHANGED <<payment_method, payment_status>>
    /\ UNCHANGED <<debug, razorpay_client, now, order_ids, race, created, financials, order_status,
                   razorpay_payment_id, waybill_number, shiprocket_order_id,
                   admin_notes, delivered_at, delivery>>

\* cancel_order refusing only an order that is already cancelled
cancel_order_cancelled_only(order_id) ==
    /\ UNCHANGED <<debug, razorpay_client, now, order_ids, race, created, financials, payment_status, payment_method,
                   razorpay_payment_id, waybill_number, shiprocket_order_id,
                   delivered_at>>
    /\ IF ~OrderFound(order_id)
       THEN /\ resp' = Response("cancel", 404, FALSE, "none")
            /\ UNCHANGED <<order_status, admin_notes, delivery>>
       ELSE IF order_status \in {"cancelled"}
       THEN /\ resp' = Response("cancel", 400, FALSE, "none")
            /\ UNCHANGED <<order_status, admin_notes, delivery>>
       ELSE /\ delivery' = IF delivery # <<>> /\ Truthy(delivery[1].shipment_id)
                           THEN <<[delivery[1] EXCEPT !.current_status = ST_Cancelled]>>
                           ELSE delivery
            /\ order_status' = "cancelled"
            /\ admin_notes' = "Cancelled"
            /\ resp' = Response("cancel", 200, TRUE, "none")

\* cancel_order cancelling only an order whose shipment it can mark
\* cancelled: without a delivery row that has a shipment the request fails
cancel_order_shipment_required(order_id) ==
    /\ UNCHANGED <<debug, razorpay_client, now, order_ids, race, created, financials, payment_status, payment_method,
                   razorpay_payment_id, waybill_number, shiprocket_order_id,
                   delivered_at>>
    /\ IF ~OrderFound(order_id)
       THEN /\ resp' = Response("cancel", 404, FALSE, "none")
            /\ UNCHANGED <<order_status, admin_notes, delivery>>
       ELSE IF order_status \in {"delivered", "cancelled"}
       THEN /\ resp' = Response("cancel", 400, FALSE, "none")
            /\ UNCHANGED <<order_status, admin_notes, delivery>>
       ELSE IF ~(delivery # <<>> /\ Truthy(delivery[1].shipment_id))
       THEN /\ resp' = Response("cancel", 500, FALSE, "none")
            /\ UNCHANGED <<order_status, admin_notes, delivery>>
       ELSE /\ delivery' = <<[delivery[1] EXCEPT !.current_status = ST_Cancelled]>>
            /\ order_status' = "cancelled"
            /\ admin_notes' = "Cancelled"
            /\ resp' = Response("cancel", 200, TRUE, "none")

\* POST /api/orders/{order_id}/cancel
cancel_order(order_id) ==
    /\ UNCHANGED <<debug, razorpay_client, now, order_ids, race, created, financials, payment_status, payment_method,
                   razorpay_payment_id, waybill_number, shiprocket_order_id,
                   delivered_at>>
    /\ IF ~OrderFound(order_id)
       THEN /\ resp' = Response("cancel", 404, FALSE, "none")
            /\ UNCHANGED <<order_status, admin_notes, delivery>>
       ELSE IF order_status \in {"delivered", "cancelled"}
       THEN /\ resp' = Response("cancel", 400, FALSE, "none")
            /\ UNCHANGED <<order_status, admin_notes, delivery>>
       ELSE /\ delivery' = IF delivery # <<>> /\ Truthy(delivery[1].shipment_id)
                           THEN <<[delivery[1] EXCEPT !.current_status = ST_Cancelled]>>
                           ELSE delivery
            /\ order_status' = "cancelled"
            /\ admin_notes' = "Cancelled"
            /\ resp' = Response("cancel", 200, TRUE, "none")

\* the timestamp column update_status sets for a status text
TimestampFor(status_lower) ==
    IF Contains(KW_picked, status_lower) \/ Contains(KW_pickup, status_lower)
    THEN "picked_up_at"
    ELSE IF Contains(KW_transit, status_lower) THEN "in_transit_at"
    ELSE IF Contains(KW_out_for_delivery, status_lower) THEN "out_for_delivery_at"
    ELSE IF Contains(KW_delivered, status_lower) THEN "delivered_at"
    ELSE "None"

\* POST /api/delivery/update-status/{waybill_number}
\* (handle_delivery_request, action "update_status").  tracking_history is a
\* plain JSON column: an empty history is replaced by a new list, which the
\* commit writes with the entry appended to it; the append to a history
\* loaded non-empty is an in-place change of the loaded list that the session
\* does not see, so the commit does not write it.
update_delivery_status(waybill, status) ==
    /\ UNCHANGED <<debug, razorpay_client, now, order_ids, race, created, financials, payment_status, payment_method,
                   razorpay_payment_id, waybill_number, shiprocket_order_id,
                   admin_notes>>
    /\ IF delivery = <<>> \/ delivery[1].waybill_number # waybill
       THEN /\ resp' = Response("update_status", 404, FALSE, "none")
            /\ UNCHANGED <<order_status, delivered_at, delivery>>
       ELSE LET d  == delivery[1]
                ts == TimestampFor(str_lower(status))
            IN  /\ delivery' = <<[d EXCEPT
                       !.current_status      = status,
                       !.picked_up_at        = IF ts = "picked_up_at" THEN TRUE ELSE @,
                       !.in_transit_at       = IF ts = "in_transit_at" THEN TRUE ELSE @,
                       !.out_for_delivery_at = IF ts = "out_for_delivery_at" THEN TRUE ELSE @,
                       !.delivered_at        = IF ts = "delivered_at" THEN TRUE ELSE @,
                       !.tracking_history    = IF @ = <<>> THEN <<status>> ELSE @]>>
                /\ IF ts = "delivered_at"
                   THEN /\ order_status' = "delivered"
                        /\ delivered_at' = TRUE
                   ELSE UNCHANGED <<order_status, delivered_at>>
                /\ resp' = Response("update_status", 200, TRUE, "none")

\* format_phone (admin.py)
IsDigit(c) == c \in {"0", "1", "2", "3", "4", "5", "6", "7", "8", "9"}
format_phone(phone) ==
    LET digits == SelectSeq(phone, IsDigit)
    IN  IF ~(Len(digits) >= 2 /\ SubSeq(digits, 1, 2) = <<"9", "1">>)
           /\ Len(digits) = 10
        THEN <<"9", "1">> \o digits
        ELSE digits

\* verify_admin_access: the status code it ends with (200: returns the
\* customer).  Reading customer.is_admin raises AttributeError when the
\* Customer class does not define it; the handlers turn that into a 500.
verify_admin_access(email, phone) ==
    IF ~Truthy(email) /\ phone = <<>> THEN 401
    ELSE LET found == IF Truthy(email) THEN email \in DOMAIN CustomerByEmail
                      ELSE format_phone(phone) \in DOMAIN CustomerByPhone
         IN  IF ~found THEN 404
             ELSE IF "is_admin" \notin CustomerColumns THEN 500
             ELSE IF ~(IF Truthy(email) THEN CustomerByEmail[email]
                       ELSE CustomerByPhone[format_phone(phone)]) THEN 403
             ELSE 200

\* the statuses PUT /orders/{id}/status accepts
valid_statuses == {"pending", "confirmed", "processing", "shipped",
                   "delivered", "cancelled", "refunded"}

\* PUT /api/admin/orders/{order_id}/status
update_order_status(order_id, status, email, phone) ==
    LET access == verify_admin_access(email, phone)
    IN
    /\ UNCHANGED <<debug, razorpay_client, now, order_ids, race, created, financials, payment_status, payment_method,
                   razorpay_payment_id, waybill_number, shiprocket_order_id,
                   admin_notes, delivery>>
    /\ IF access # 200
       THEN /\ resp' = Response("admin_status", access, FALSE, "none")
            /\ UNCHANGED <<order_status, delivered_at>>
       ELSE IF ~OrderFound(order_id)
       THEN /\ resp' = Response("admin_status", 404, FALSE, "none")
            /\ UNCHANGED <<order_status, delivered_at>>
       ELSE IF status \notin valid_statuses
       THEN /\ resp' = Response("admin_status", 400, FALSE, "none")
            /\ UNCHANGED <<order_status, delivered_at>>
       ELSE /\ order_status' = status
            /\ delivered_at' = (delivered_at \/ status = "delivered")
            /\ resp' = Response("admin_status", 200, TRUE, "none")

\* POST /api/admin/orders/{order_id}/ship
create_shipment(order_id, email, phone) ==
    LET access == verify_admin_access(email, phone)
    IN
    /\ UNCHANGED <<debug, razorpay_client, now, order_ids, race, created, financials, payment_status, payment_method,
                   razorpay_payment_id, shiprocket_order_id, admin_notes,
                   delivered_at, delivery>>
    /\ IF access # 200
       THEN /\ resp' = Response("admin_ship", access, FALSE, "none")
            /\ UNCHANGED <<order_status, waybill_number>>
       ELSE IF ~OrderFound(order_id)
       THEN /\ resp' = Response("admin_ship", 404, FALSE, "none")
            /\ UNCHANGED <<order_status, waybill_number>>
       ELSE IF Truthy(waybill_number)
       THEN /\ resp' = Response("admin_ship", 200, FALSE, "exists")
            /\ UNCHANGED <<order_status, waybill_number>>
       ELSE /\ waybill_number' = "WB-1"
            /\ order_status' = "shipped"
            /\ resp' = Response("admin_ship", 200, TRUE, "created")

\* the Order attributes track_order reads to build its response
TrackResponseAttrs == {"shiprocket_order_id", "shipment_id", "awb_code", "courier_id"}

\* the response of a tracking request, with what Shiprocket's order API held
\* for it when it was sent (details)
TrackResponse(code, success, details) ==
    [op |-> "track", code |-> code, success |-> success, gateway |-> FALSE,
     shipment |-> "none", details |-> details]

\* the order status a tracking answer leads to (track_order, lines 775-807)
StatusFromTracking(current, shiprocket_status) ==
    IF Contains(KW_delivered, shiprocket_status)
    THEN "delivered"
    ELSE IF \E kw \in {KW_transit, KW_picked, KW_dispatched, KW_out_for_delivery} :
               Contains(kw, shiprocket_status)
    THEN IF current \notin {"shipped", "delivered"} THEN "shipped" ELSE current
    ELSE IF Contains(KW_pickup_scheduled, shiprocket_status)
            \/ Contains(KW_manifest, shiprocket_status)
    THEN IF current = "confirmed" THEN "processing" ELSE current
    ELSE current

\* the text written to Delivery.current_status with that status
DeliveryTextFor(new_status, shiprocket_status) ==
    IF new_status = "delivered" THEN ST_Delivered
    ELSE IF new_status = "shipped" THEN str_title(shiprocket_status)
    ELSE ST_Processing

\* track_order without the comparison of the request's e-mail with the
\* order's shipping e-mail
track_order_email_unchecked(order_id, email, detailsAnswer, trackingAnswer) ==
    /\ UNCHANGED <<debug, razorpay_client, now, order_ids, race, created, financials, payment_status, payment_method,
                   razorpay_payment_id, waybill_number, shiprocket_order_id,
                   admin_notes, delivered_at>>
    /\ IF ~OrderFound(order_id)
       THEN /\ resp' = TrackResponse(404, FALSE, detailsAnswer)
            /\ UNCHANGED <<order_status, delivery>>
       ELSE IF "shiprocket_order_id" \notin OrderColumns
       THEN \* `order.shiprocket_order_id` raises AttributeError: unhandled
            /\ resp' = TrackResponse(500, FALSE, detailsAnswer)
            /\ UNCHANGED <<order_status, delivery>>
       ELSE LET details == shiprocket_get_order_details(debug, detailsAnswer)
                cancelNow == /\ Truthy(shiprocket_order_id)
                             /\ details.success
                             /\ str_upper(details.status) = KW_CANCELED
                             /\ order_status # "cancelled"
                status1 == IF cancelNow THEN "cancelled" ELSE order_status
                delivery1 == IF cancelNow /\ delivery # <<>>
                             THEN <<[delivery[1] EXCEPT !.current_status = ST_CANCELED]>>
                             ELSE delivery
                poll == /\ delivery1 # <<>>
                        /\ Truthy(delivery1[1].shipment_id)
                        /\ status1 # "cancelled"
                live == shiprocket_track_shipment(debug, trackingAnswer)
                shiprocket_status == str_lower(live.current_status)
                status2 == IF poll /\ live.success
                           THEN StatusFromTracking(status1, shiprocket_status)
                           ELSE status1
                delivery2 == IF status2 # status1
                             THEN <<[delivery1[1] EXCEPT !.current_status =
                                       DeliveryTextFor(status2, shiprocket_status)]>>
                             ELSE delivery1
            IN  /\ order_status' = status2
                /\ delivery' = delivery2
                /\ resp' = IF TrackResponseAttrs \subseteq OrderColumns
                           THEN TrackResponse(200, TRUE, detailsAnswer)
                           ELSE TrackResponse(500, FALSE, detailsAnswer)

\* GET /api/orders/{order_id}/track.  detailsAnswer, trackingAnswer: what
\* Shiprocket would answer to the order query and to the tracking query.
track_order(order_id, email, detailsAnswer, trackingAnswer) ==
    /\ UNCHANGED <<debug, razorpay_client, now, order_ids, race, created, financials, payment_status, payment_method,
                   razorpay_payment_id, waybill_number, shiprocket_order_id,
                   admin_notes, delivered_at>>
    /\ IF ~OrderFound(order_id)
       THEN /\ resp' = TrackResponse(404, FALSE, detailsAnswer)
            /\ UNCHANGED <<order_status, delivery>>
       ELSE IF str_lower(ShippingEmail) # str_lower(email)
       THEN /\ resp' = TrackResponse(403, FALSE, detailsAnswer)
            /\ UNCHANGED <<order_status, delivery>>
       ELSE IF "shiprocket_order_id" \notin OrderColumns
       THEN \* `order.shiprocket_order_id` raises AttributeError: unhandled
            /\ resp' = TrackResponse(500, FALSE, detailsAnswer)
            /\ UNCHANGED <<order_status, delivery>>
       ELSE LET details == shiprocket_get_order_details(debug, detailsAnswer)
                cancelNow == /\ Truthy(shiprocket_order_id)
                             /\ details.success
                             /\ str_upper(details.status) = KW_CANCELED
                             /\ order_status # "cancelled"
                status1 == IF cancelNow THEN "cancelled" ELSE order_status
                delivery1 == IF cancelNow /\ delivery # <<>>
                             THEN <<[delivery[1] EXCEPT !.current_status = ST_CANCELED]>>
                             ELSE delivery
                poll == /\ delivery1 # <<>>
                        /\ Truthy(delivery1[1].shipment_id)
                        /\ status1 # "cancelled"
                live == shiprocket_track_shipment(debug, trackingAnswer)
                shiprocket_status == str_lower(live.current_status)
                status2 == IF poll /\ live.success
                           THEN StatusFromTracking(status1, shiprocket_status)
                           ELSE status1
                delivery2 == IF status2 # status1
                             THEN <<[delivery1[1] EXCEPT !.current_status =
                                       DeliveryTextFor(status2, shiprocket_status)]>>
                             ELSE delivery1
            IN  /\ order_status' = status2
                /\ delivery' = delivery2
                /\ resp' = IF TrackResponseAttrs \subseteq OrderColumns
                           THEN TrackResponse(200, TRUE, detailsAnswer)
                           ELSE TrackResponse(500, FALSE, detailsAnswer)

\* ----------------------------------------------------------- the requests
\* The requests sent: every request for the order followed, and one request
\* of each kind for an order_id that no row has.  A tracking request with
\* another e-mail is also sent while Shiprocket holds a cancelled order and a
\* delivered shipment.
AdminStatusRequests ==
    { r \in [order_id : OrderRefs, status : valid_statuses \cup {"returned"},
             caller : AdminCallers] :
        \/ r.order_id = OrderId
              /\ (r.caller.email = "admin@x.in" \/ r.status = "shipped")
        \/ r.status = "shipped" /\ r.caller.email = "admin@x.in" }
AdminShipRequests ==
    { r \in [order_id : OrderRefs, caller : AdminCallers] :
        r.order_id = OrderId \/ r.caller.email = "admin@x.in" }
TrackRequests ==
    { r \in [order_id : OrderRefs, email : RequestEmails,
             details : ShiprocketOrderStatuses \cup {Unavailable},
             tracking : TrackingStatuses \cup {Unavailable}] :
        \/ r.order_id = OrderId /\ r.email = ShippingEmail
              /\ (r.details = Unavailable \/ r.tracking = Unavailable)
        \/ r.details = Unavailable /\ r.tracking = Unavailable
              /\ (r.order_id = OrderId \/ r.email = ShippingEmail)
        \/ r.order_id = OrderId /\ r.email = OtherEmail
              /\ r.details = <<"c","a","n","c","e","l","e","d">>
              /\ r.tracking = <<"D","E","L","I","V","E","R","E","D">> }

CreateOrder ==
    \E pm \in {"online", "cod"}, ft \in BOOLEAN : create_order(pm, ft)
VerifyPayment ==
    \E o \in OrderRefs, s \in Signatures, f \in BOOLEAN :
        verify_razorpay_payment(o, "order_1", "pay_1", s, f)
ProcessCod ==
    \E o \in OrderRefs : process_cod_order(o)
CancelOrder ==
    \E o \in OrderRefs : cancel_order(o)
UpdateDeliveryStatus ==
    \E w \in {"SR-1", "AWB-1"}, s \in StatusUpdates :
        update_delivery_status(w, s)
TrackOrder ==
    \E r \in TrackRequests :
        track_order(r.order_id, r.email, r.details, r.tracking)
AdminUpdateStatus ==
    \E r \in AdminStatusRequests :
        update_order_status(r.order_id, r.status, r.caller.email, r.caller.phone)
AdminShip ==
    \E r \in AdminShipRequests :
        create_shipment(r.order_id, r.caller.email, r.caller.phone)

Next ==
    \/ CreateOrder
    \/ VerifyPayment
    \/ ProcessCod
    \/ CancelOrder
    \/ UpdateDeliveryStatus
    \/ TrackOrder
    \/ AdminUpdateStatus
    \/ AdminShip

Spec == Init /\ [][Next]_vars

\* ------------------------------------------------------------ the claims
\* the references a shipment leaves on the order: its waybill / AWB, its
\* Shiprocket order id, and the delivery row's shipment id and waybill
HasShipmentRef ==
    \/ Truthy(waybill_number)
    \/ Truthy(shiprocket_order_id)
    \/ /\ delivery # <<>>
       /\ Truthy(delivery[1].shipment_id) \/ Truthy(delivery[1].waybill_number)

\* a verify request for the order followed
VerifyForOrder(s, f) == verify_razorpay_payment(OrderId, "order_1", "pay_1", s, f)
\* the gateway adapter rejects the signature s
SignatureRejected(s) == razorpay_client /\ GeneratedSignature("order_1", "pay_1") # s
\* the gateway adapter verifies the proof
ProofVerified(s, f) == razorpay_client => (~SignatureRejected(s) /\ f)

\* C1: fulfillmentStatus never regresses along Processing -> Shipped ->
\* Delivered: a Shipped order is never again pending/confirmed/processing and
\* a Delivered order is never again shipped or earlier, whatever the request.
C1_FulfillmentNeverRegresses ==
    [][ /\ order_status = "shipped" =>
             order_status' \notin {"pending", "confirmed", "processing"}
        /\ order_status = "delivered" =>
             order_status' \notin {"pending", "confirmed", "processing", "shipped"}
      ]_vars

\* C2: verifyPayment is idempotent: a verify request for an order that is
\* already paid with the same proof leaves paymentStatus, fulfillmentStatus
\* and the shipment references as they are and does not call the payment
\* gateway adapter again.
C2_VerifyIdempotent ==
    [][ \A s \in Signatures, f \in BOOLEAN :
          ( /\ created
            /\ payment_status = "paid"
            /\ razorpay_payment_id = "pay_1"
            /\ ProofVerified(s, f)
            /\ VerifyForOrder(s, f) )
          => /\ ~resp'.gateway
             /\ UNCHANGED <<payment_status, order_status, waybill_number,
                            shiprocket_order_id, delivery>>
      ]_vars

\* C3: in every reachable state a Shipped order has a non-empty shipment
\* reference.  (No request reaches Shipped: see the operations that write it.)
C3_ShippedHasShipmentRef ==
    order_status = "shipped" => HasShipmentRef

\* C4: Delivered and Cancelled are terminal: once fulfillmentStatus is
\* delivered or cancelled no request changes it.
C4_TerminalStatesFinal ==
    [][ (order_status \in {"delivered", "cancelled"}) => (order_status' = order_status)
      ]_vars

\* C5: cancel on an order that is Delivered or Cancelled is rejected with an
\* error (400) and changes nothing: fulfillmentStatus, the admin note and the
\* delivery row are the same after the call as before.
C5_CancelRejectedWhenTerminal ==
    [][ ( /\ created
          /\ order_status \in {"delivered", "cancelled"}
          /\ cancel_order(OrderId) )
        => /\ resp'.code = 400
           /\ ~resp'.success
           /\ UNCHANGED <<order_status, admin_notes, delivery>>
      ]_vars
\* a cancel request was refused for a Delivered order that has a delivery row
C5_Witness ==
    /\ resp.op = "cancel" /\ resp.code = 400
    /\ order_status = "delivered"
    /\ delivery # <<>>

\* C6: for an order in a non-terminal fulfillmentStatus, a delivery
\* update_status call that finds the delivery and whose status text contains
\* "delivered" (lower-cased) leaves fulfillmentStatus = delivered.
C6_DeliveredTextDelivers ==
    [][ \A w \in {"SR-1", "AWB-1"}, s \in StatusUpdates :
          ( /\ created
            /\ order_status \notin {"delivered", "cancelled"}
            /\ Contains(KW_delivered, str_lower(s))
            /\ update_delivery_status(w, s)
            /\ resp'.code = 200 )
          => order_status' = "delivered"
      ]_vars

\* C7: once the gateway has verified a payment for an existing order,
\* paymentStatus is paid after the request whatever became of the shipment
\* step that follows (created, refused by the adapter, or raised), and the
\* caller receives a successful verification result.
C7_PaymentSurvivesShipmentStep ==
    [][ \A s \in Signatures, f \in BOOLEAN :
          ( /\ created
            /\ ProofVerified(s, f)
            /\ VerifyForOrder(s, f) )
          => /\ payment_status' = "paid"
             /\ resp'.code = 200
             /\ resp'.success
      ]_vars
\* a verify request whose shipment step did not produce a shipment ended
\* with the order paid and a successful result
C7_Witness ==
    /\ resp.op = "verify" /\ resp.success
    /\ resp.shipment \in {"failed", "raised"}
    /\ payment_status = "paid"
    /\ ~HasShipmentRef

\* C8: when the shipment provider fails during the shipment step of
\* create_order or of verify_razorpay_payment, the order is left in
\* processing, without a shipment reference, and with a failure note.
C8_ShipmentFailureStillProcessing ==
    ( /\ resp.op \in {"create_order", "verify"}
      /\ resp.shipment = "failed" )
    => /\ order_status = "processing"
       /\ ~HasShipmentRef
       /\ admin_notes # "None"

\* C9 (as claimed): when the gateway rejects the signature, the order's
\* paymentStatus is failed after the request.
C9_RejectedMarksFailed ==
    [][ \A s \in Signatures, f \in BOOLEAN :
          ( /\ created
            /\ SignatureRejected(s)
            /\ VerifyForOrder(s, f) )
          => payment_status' = "failed"
      ]_vars
\* C9 (amended): when the gateway rejects the signature, verifyPayment is a
\* hard failure: the order row (paymentStatus, which does not become paid and
\* is not set to failed, fulfillmentStatus, shipment references) and the
\* delivery row are unchanged, no shipment step runs, and the caller receives
\* a verification-failure result.
C9_RejectedChangesNothing ==
    [][ \A o \in OrderRefs, s \in Signatures, f \in BOOLEAN :
          ( /\ SignatureRejected(s)
            /\ verify_razorpay_payment(o, "order_1", "pay_1", s, f) )
          => /\ UNCHANGED <<orderVars, delivery>>
             /\ resp'.code = 200
             /\ ~resp'.success
             /\ resp'.shipment = "none"
      ]_vars
\* a verify request failed for an existing, unpaid order of a configured
\* gateway, and the order is still unpaid
C9_Witness ==
    /\ resp.op = "verify" /\ ~resp.success
    /\ razorpay_client
    /\ created
    /\ payment_status = "pending"
    /\ order_status = "confirmed"

\* C10: after cancel has succeeded on an unpaid order, every later verify
\* request for that order is rejected and leaves paymentStatus and
\* fulfillmentStatus unchanged.
C10_VerifyRejectedAfterCancel ==
    [][ \A s \in Signatures, f \in BOOLEAN :
          ( /\ created
            /\ order_status = "cancelled"
            /\ admin_notes = "Cancelled"
            /\ payment_status = "pending"
            /\ VerifyForOrder(s, f) )
          => /\ ~resp'.success
             /\ UNCHANGED <<payment_status, order_status>>
      ]_vars

\* C12: fulfillmentStatus reaches Delivered only from Shipped: in every step
\* that sets order_status to delivered, order_status was shipped before it.
C12_DeliveredOnlyFromShipped ==
    [][ (order_status' = "delivered" /\ order_status # "delivered")
        => order_status = "shipped"
      ]_vars

\* C13: every order is created by create_order in paymentStatus = pending,
\* fulfillmentStatus = pending, whatever the payment method.
C13_CreatedPendingPending ==
    [][ (\E pm \in {"online", "cod"}, ft \in BOOLEAN : create_order(pm, ft))
        => /\ payment_status' = "pending"
           /\ order_status' = "pending"
      ]_vars

\* C14: in every reachable state a Confirmed order is Paid or cash on
\* delivery: (payment pending, confirmed) is unreachable.
C14_ConfirmedIsPaidOrCod ==
    (created /\ order_status = "confirmed") => payment_status \in {"paid", "cod"}

\* C19: a verify request the gateway verifies sets paymentStatus to paid and
\* moves fulfillmentStatus to confirmed only from pending; an order already
\* confirmed, processing, shipped, delivered or cancelled keeps its
\* fulfillmentStatus.
C19_VerifyConfirmsOnlyPending ==
    [][ \A s \in Signatures, f \in BOOLEAN :
          ( /\ created
            /\ ProofVerified(s, f)
            /\ VerifyForOrder(s, f) )
          => /\ payment_status' = "paid"
             /\ order_status' = IF order_status = "pending" THEN "confirmed"
                                ELSE order_status
      ]_vars

\* C20: a delivery update_status call classifies the lower-cased status text
\* by substring and applies only the highest-priority class it matches, in
\* the order Delivered > Cancelled > OutForDelivery > InTransit > PickedUp:
\* the one timestamp of that class is set on the delivery row, the others are
\* left as they were, and a Delivered text makes the order delivered.
C20_HighestPriorityClassApplies ==
    [][ \A w \in {"SR-1", "AWB-1"}, s \in StatusUpdates :
          ( /\ created
            /\ update_delivery_status(w, s)
            /\ resp'.code = 200 )
          => LET sl == str_lower(s)
                 class ==
                   IF Contains(KW_delivered, sl) THEN "delivered_at"
                   ELSE IF Contains(<<"c","a","n","c","e","l">>, sl) THEN "cancelled"
                   ELSE IF Contains(KW_out_for_delivery, sl) THEN "out_for_delivery_at"
                   ELSE IF Contains(KW_transit, sl) THEN "in_transit_at"
                   ELSE IF Contains(KW_picked, sl) \/ Contains(KW_pickup, sl)
                        THEN "picked_up_at"
                   ELSE "None"
             IN  /\ \A col \in {"picked_up_at", "in_transit_at",
                                "out_for_delivery_at", "delivered_at"} :
                       delivery'[1][col] = (delivery[1][col] \/ col = class)
                 /\ class = "delivered_at" => order_status' = "delivered"
      ]_vars

\* C16: a tracking poll made while the shipment provider gives no usable
\* answer (timeout, non-200, exception) does not raise to the caller and does
\* not advance the order: the request is answered 200 and fulfillmentStatus
\* is the same after it as before.
C16_UnavailablePollKeepsStatus ==
    [][ \A d \in ShiprocketOrderStatuses \cup {Unavailable} :
          ( /\ created
            /\ track_order(OrderId, ShippingEmail, d, Unavailable) )
          => /\ resp'.code = 200
             /\ order_status' = order_status
      ]_vars

\* C17: the end-to-end scenario, step by step.  For an unpaid order without
\* a shipment a verified payment gives paid, and when the shipment step that
\* follows does not create a shipment the order is left (paid, processing)
\* without a shipment reference; for a paid order in processing that has its
\* shipment reference, a delivery update "picked up" leaves fulfillmentStatus
\* unchanged, "out for delivery" gives shipped, and for a shipped order
\* "delivered" gives delivered.
C17_EndToEndScenario ==
    [][ /\ \A s \in Signatures, f \in BOOLEAN :
             ( /\ created /\ payment_status = "pending" /\ ~HasShipmentRef
               /\ ProofVerified(s, f)
               /\ VerifyForOrder(s, f)
               /\ resp'.shipment \in {"failed", "raised"} )
             => /\ payment_status' = "paid"
                /\ order_status' = "processing"
                /\ ~HasShipmentRef'
        /\ \A w \in {"SR-1", "AWB-1"}, s \in StatusUpdates :
             ( /\ created /\ payment_status = "paid" /\ HasShipmentRef
               /\ update_delivery_status(w, s)
               /\ resp'.code = 200 )
             => LET sl == str_lower(s)
                IN  /\ (order_status = "processing" /\ Contains(KW_picked, sl)
                          /\ ~Contains(KW_delivered, sl))
                       => order_status' = "processing"
                    /\ (order_status = "processing"
                          /\ Contains(KW_out_for_delivery, sl))
                       => order_status' = "shipped"
                    /\ (order_status = "shipped" /\ Contains(KW_delivered, sl))
                       => order_status' = "delivered"
      ]_vars

\* C21: a tracking poll whose event would move fulfillmentStatus backward
\* (a pickup / transit / out-for-delivery event for an order already shipped
\* or delivered, or a pickup-scheduled / manifest event for an order already
\* processing or later) is ignored: the poll leaves fulfillmentStatus
\* unchanged and is answered normally (200), not with an error.
C21_BackwardEventIgnored ==
    [][ \A d \in ShiprocketOrderStatuses \cup {Unavailable}, t \in TrackingStatuses \cup {Unavailable} :
          LET event == str_lower(shiprocket_track_shipment(debug, t).current_status)
              shipping == \E kw \in {KW_transit, KW_picked, KW_dispatched,
                                     KW_out_for_delivery} : Contains(kw, event)
              scheduling == Contains(KW_pickup_scheduled, event)
                               \/ Contains(KW_manifest, event)
          IN  ( /\ created
                /\ delivery # <<>>
                /\ ~Contains(KW_delivered, event)
                /\ \/ shipping /\ order_status \in {"shipped", "delivered"}
                   \/ scheduling /\ ~shipping
                        /\ order_status \in {"processing", "shipped", "delivered"}
                /\ track_order(OrderId, ShippingEmail, d, t) )
              => /\ resp'.code = 200
                 /\ order_status' = order_status
      ]_vars

C23_CancelAlwaysCancels ==
    [][ ( /\ created
          /\ order_status \notin {"delivered", "cancelled"}
          /\ cancel_order(OrderId) )
        => /\ order_status' = "cancelled"
           /\ resp'.code = 200
           /\ resp'.success
      ]_vars
\* a cancel request succeeded on an order that has no delivery row and no
\* shipment reference, and the order is cancelled
C23_Witness ==
    /\ resp.op = "cancel" /\ resp.code = 200 /\ resp.success
    /\ order_status = "cancelled"
    /\ delivery = <<>>
    /\ ~HasShipmentRef

History == IF delivery = <<>> THEN <<>> ELSE delivery[1].tracking_history

\* C25: every request that changes the order's paymentStatus or
\* fulfillmentStatus appends exactly one entry to the order's history in the
\* same step, and the history is append-only: every step leaves the entries
\* it had in place.
C25_StatusChangeAppendsHistory ==
    [][ created
        => /\ Len(History') >= Len(History)
           /\ SubSeq(History', 1, Len(History)) = History
           /\ (payment_status' # payment_status \/ order_status' # order_status)
                => Len(History') = Len(History) + 1
      ]_vars

\* C26: the financials of an order (subtotal, shipping cost, total) are those
\* create_order stored with the confirmed order: no later request (payment
\* verification, COD processing, shipment creation, tracking poll, delivery
\* update, cancel, the admin operations) changes any of the three.
C26_FinancialsImmutable ==
    [][ created => financials' = financials ]_vars
\* an order created with the charges computed by the backend was paid by a
\* verified payment and then cancelled, and its financials are those charges
C26_Witness ==
    /\ created
    /\ financials = order_charges("online", FALSE)
    /\ financials.total = financials.subtotal + financials.shipping_cost
    /\ financials.total > 0
    /\ payment_status = "paid"
    /\ order_status = "cancelled"
    /\ resp.op = "cancel" /\ resp.code = 200

\* C28: a tracking request for the order whose e-mail differs from the
\* order's shipping e-mail, compared case-insensitively (OtherEmail: the one
\* request e-mail that is not the shipping e-mail in any letter case, which
\* track_order finds by lower-casing both), is answered 403 and
\* leaves order_status and the delivery row unchanged, whatever Shiprocket
\* would answer to the order query and to the tracking query (cancelled,
\* delivered): the refusal precedes every adapter call.
C28_ForeignEmailRefused ==
    [][ (created /\ resp'.op = "track")
            => \A tracking \in {Unavailable, <<"D","E","L","I","V","E","R","E","D">>} :
                  track_order(OrderId, OtherEmail, resp'.details, tracking)
                  => /\ resp'.code = 403
                     /\ order_status' = order_status
                     /\ delivery' = delivery
      ]_vars
\* a request with another e-mail was refused while Shiprocket held CANCELED
\* for the order, which is paid, has its delivery row and is not cancelled
C28_Witness ==
    /\ created
    /\ resp.op = "track"
    /\ resp.code = 403
    /\ str_upper(resp.details) = KW_CANCELED
    /\ payment_status = "paid"
    /\ delivery # <<>>
    /\ order_status \notin {"cancelled", "delivered"}

\* C29: an admin status update or admin ship sent by a customer who is not
\* an admin is rejected with 403 and leaves the order's status and waybill
\* unchanged.
C29_NonAdminRejected ==
    [][ (created /\ resp'.op \in {"admin_status", "admin_ship"})
            => ( ( \/ update_order_status(OrderId, "shipped", "user@x.in", <<>>)
                   \/ create_shipment(OrderId, "user@x.in", <<>>) )
                 => /\ resp'.code = 403
                    /\ order_status' = order_status
                    /\ waybill_number' = waybill_number )
      ]_vars

\* C30: once the order has a waybill number, an admin ship call by an admin
\* answers "Shipment already exists" and changes neither the waybill nor
\* order_status.
C30_AdminShipIdempotent ==
    [][ (created /\ Truthy(waybill_number) /\ resp'.op = "admin_ship")
            => ( create_shipment(OrderId, "admin@x.in", <<>>)
                 => /\ resp'.code = 200
                    /\ resp'.shipment = "exists"
                    /\ order_status' = order_status
                    /\ waybill_number' = waybill_number )
      ]_vars

\* ------------------------------------------------- polling under fairness
\* a tracking poll for the order by its owner while Shiprocket reports the
\* shipment delivered
PollDelivered ==
    \E d \in ShiprocketOrderStatuses \cup {Unavailable} :
        track_order(OrderId, ShippingEmail, d, str_upper(KW_delivered))

\* the requests when every tracking answer of the provider is "DELIVERED"
NextDelivered ==
    \/ CreateOrder
    \/ VerifyPayment
    \/ ProcessCod
    \/ CancelOrder
    \/ UpdateDeliveryStatus
    \/ PollDelivered
    \/ AdminUpdateStatus
    \/ AdminShip

\* the provider keeps reporting delivered and polls keep being issued
SpecPolling == Init /\ [][NextDelivered]_vars /\ WF_vars(PollDelivered)

\* C18: under SpecPolling, an order that is paid and not cancelled is
\* eventually delivered (or cancelled meanwhile).
C18_PolledOrderEventuallyDelivered ==
    (created /\ payment_status = "paid" /\ order_status # "cancelled")
      ~> (order_status \in {"delivered", "cancelled"})

\* ---------------------------------------------------- checkouts over time
\* checkout requests as the clock advances
NextCheckout ==
    \/ Tick
    \/ CreateOrder

SpecCheckout == Init /\ [][NextCheckout]_vars

\* C15: order references are unique and immutable: every checkout receives
\* an order_id that no other order has, also a checkout in the same clock
\* second as another, and the order is stored under it; the order_id of a
\* stored order never changes.
C15_OrderIdsUnique ==
    [][ /\ CreateOrder => /\ generate_order_id(now) \notin order_ids
                          /\ generate_order_id(now) \in order_ids'
        /\ order_ids \subseteq order_ids'
      ]_vars

\* ------------------------------------------- two requests on one order
\* Each request has its own database session: it loads the order (SELECT),
\* decides on what it loaded, and writes at db.commit() (UPDATE ... WHERE id).
\* Nothing locks the row between the two, so the steps of two requests
\* interleave.  The requests followed: a verify request with a proof the
\* gateway verifies, racing a cancel request or a tracking poll of the owner.

\* the columns of the order row these handlers read and write
OrderRow ==
    [order_status |-> order_status, payment_status |-> payment_status,
     payment_method |-> payment_method,
     razorpay_payment_id |-> razorpay_payment_id, admin_notes |-> admin_notes]

\* the row r is written to the orders table
WriteOrderRow(r) ==
    /\ order_status' = r.order_status
    /\ payment_status' = r.payment_status
    /\ payment_method' = r.payment_method
    /\ razorpay_payment_id' = r.razorpay_payment_id
    /\ admin_notes' = r.admin_notes

\* the attributes verify_razorpay_payment assigns on the order it loaded
verify_assignments ==
    [payment_status |-> "paid", payment_method |-> "online",
     razorpay_payment_id |-> "pay_1", order_status |-> "confirmed"]
\* the attributes cancel_order assigns on the order it loaded
cancel_assignments ==
    [order_status |-> "cancelled", admin_notes |-> "Cancelled"]

\* db.commit() writing back every column of the order as the session holds
\* it, the loaded values included
commit_order_whole_row(current, loaded, assigned, net_change) ==
    [c \in DOMAIN current |->
        IF c \in DOMAIN assigned THEN assigned[c] ELSE loaded[c]]

\* db.commit() of a session that loaded the row as `loaded` and assigned
\* `assigned`: the UPDATE sets the assigned columns on the row as it is now
\* (`current`) and leaves the others.  net_change: the session leaves out a
\* column that was assigned the value it was loaded with.
commit_order(current, loaded, assigned, net_change) ==
    [c \in DOMAIN current |->
        IF c \in DOMAIN assigned /\ (~net_change \/ assigned[c] # loaded[c])
        THEN assigned[c] ELSE current[c]]

\* cancel_order's write to the delivery row it loaded
commit_delivery(current, loaded) ==
    IF loaded # <<>> /\ Truthy(loaded[1].shipment_id) /\ current # <<>>
    THEN <<[current[1] EXCEPT !.current_status = ST_Cancelled]>>
    ELSE current

\* the variables no step of a request in flight writes
raceFrame == <<debug, razorpay_client, now, order_ids, created, financials, waybill_number,
               shiprocket_order_id, delivered_at>>

\* a verify request and a second request arrive together
StartRace ==
    /\ race = RaceIdle
    /\ created
    /\ \E kind \in {"verify_cancel", "verify_track"}, nc \in BOOLEAN :
         race' = [kind |-> kind, net_change |-> nc,
                  start |-> [order |-> OrderRow, delivery |-> delivery],
                  verify |-> [NoRequest EXCEPT !.pc = "read"],
                  other |-> [NoRequest EXCEPT !.pc = "read"],
                  steps |-> <<>>, create_calls |-> 0]
    /\ UNCHANGED <<raceFrame, order_status, payment_status, payment_method,
                   razorpay_payment_id, admin_notes, delivery, resp>>

\* verify_razorpay_payment: db.query(Order)...first()
verify_read ==
    /\ race.verify.pc = "read"
    /\ race' = [race EXCEPT !.verify.pc = "commit", !.verify.order = OrderRow,
                            !.steps = Append(@, "verify_read")]
    /\ UNCHANGED <<raceFrame, order_status, payment_status, payment_method,
                   razorpay_payment_id, admin_notes, delivery, resp>>

\* verify_razorpay_payment: the assignments and db.commit(); the shipment
\* step then raises and the handler returns success
verify_commit ==
    /\ race.verify.pc = "commit"
    /\ WriteOrderRow(commit_order(OrderRow, race.verify.order,
                                  verify_assignments, race.net_change))
    /\ race' = [race EXCEPT !.verify.pc = "done", !.verify.code = 200,
                            !.steps = Append(@, "verify_commit")]
    /\ resp' = Response("verify", 200, TRUE, "raised")
    /\ UNCHANGED <<raceFrame, delivery>>

\* cancel_order: db.query(Order)...first() and the check of its status
cancel_read_order ==
    /\ race.kind = "verify_cancel"
    /\ race.other.pc = "read"
    /\ IF order_status \in {"delivered", "cancelled"}
       THEN /\ race' = [race EXCEPT !.other.pc = "done", !.other.code = 400,
                                    !.steps = Append(@, "cancel_read_order")]
            /\ resp' = Response("cancel", 400, FALSE, "none")
       ELSE /\ race' = [race EXCEPT !.other.pc = "read_delivery",
                                    !.other.order = OrderRow,
                                    !.steps = Append(@, "cancel_read_order")]
            /\ UNCHANGED resp
    /\ UNCHANGED <<raceFrame, order_status, payment_status, payment_method,
                   razorpay_payment_id, admin_notes, delivery>>

\* cancel_order: db.query(Delivery)...first()
cancel_read_delivery ==
    /\ race.other.pc = "read_delivery"
    /\ race' = [race EXCEPT !.other.pc = "commit", !.other.delivery = delivery,
                            !.steps = Append(@, "cancel_read_delivery")]
    /\ UNCHANGED <<raceFrame, order_status, payment_status, payment_method,
                   razorpay_payment_id, admin_notes, delivery, resp>>

\* cancel_order: the assignments and db.commit()
cancel_commit ==
    /\ race.kind = "verify_cancel"
    /\ race.other.pc = "commit"
    /\ WriteOrderRow(commit_order(OrderRow, race.other.order,
                                  cancel_assignments, race.net_change))
    /\ delivery' = commit_delivery(delivery, race.other.delivery)
    /\ race' = [race EXCEPT !.other.pc = "done", !.other.code = 200,
                            !.steps = Append(@, "cancel_commit")]
    /\ resp' = Response("cancel", 200, TRUE, "none")
    /\ UNCHANGED raceFrame

\* track_order: db.query(Order)...first() and the e-mail check
track_read ==
    /\ race.kind = "verify_track"
    /\ race.other.pc = "read"
    /\ race' = [race EXCEPT !.other.pc = "raise", !.other.order = OrderRow,
                            !.steps = Append(@, "track_read")]
    /\ UNCHANGED <<raceFrame, order_status, payment_status, payment_method,
                   razorpay_payment_id, admin_notes, delivery, resp>>

\* track_order: `order.shiprocket_order_id` raises, nothing is written
track_raise ==
    /\ race.other.pc = "raise"
    /\ race' = [race EXCEPT !.other.pc = "done", !.other.code = 500,
                            !.steps = Append(@, "track_raise")]
    /\ resp' = TrackResponse(500, FALSE, Unavailable)
    /\ UNCHANGED <<raceFrame, order_status, payment_status, payment_method,
                   razorpay_payment_id, admin_notes, delivery>>

\* both requests have been answered
RaceDone ==
    /\ race.kind # "none"
    /\ race.verify.pc = "done"
    /\ race.other.pc = "done"

EndRace ==
    /\ RaceDone
    /\ race' = RaceIdle
    /\ UNCHANGED <<raceFrame, order_status, payment_status, payment_method,
                   razorpay_payment_id, admin_notes, delivery, resp>>

\* requests handled one at a time while no two are in flight
IdleCreateOrder == race = RaceIdle /\ CreateOrder
IdleUpdateDeliveryStatus == race = RaceIdle /\ UpdateDeliveryStatus

NextRace ==
    \/ IdleCreateOrder
    \/ IdleUpdateDeliveryStatus
    \/ StartRace
    \/ verify_read
    \/ verify_commit
    \/ cancel_read_order
    \/ cancel_read_delivery
    \/ cancel_commit
    \/ track_read
    \/ track_raise
    \/ EndRace

SpecRace == Init /\ [][NextRace]_vars

\* what the two requests leave when each runs alone, one after the other:
\* the order row, the delivery row and the status code of the second request
verify_alone(db, nc) ==
    [db EXCEPT !.order = commit_order(db.order, db.order, verify_assignments, nc)]
cancel_alone(db, nc) ==
    IF db.order.order_status \in {"delivered", "cancelled"}
    THEN [db EXCEPT !.code = 400]
    ELSE [order |-> commit_order(db.order, db.order, cancel_assignments, nc),
          delivery |-> commit_delivery(db.delivery, db.delivery),
          code |-> 200]
track_alone(db) == [db EXCEPT !.code = 500]
SequentialOutcomes ==
    LET db == [order |-> race.start.order, delivery |-> race.start.delivery,
               code |-> 0]
        nc == race.net_change
    IN  IF race.kind = "verify_cancel"
        THEN {cancel_alone(verify_alone(db, nc), nc),
              verify_alone(cancel_alone(db, nc), nc)}
        ELSE {track_alone(verify_alone(db, nc)), verify_alone(track_alone(db), nc)}

\* C11: a verify request racing a cancel or a tracking poll on the same
\* order: whatever the interleaving of their load and commit steps, once
\* both are answered the order row, the delivery row and the answer of the
\* second request are those of one of the two sequential orders of the two
\* requests.
C11_RaceIsSerializable ==
    RaceDone =>
        [order |-> OrderRow, delivery |-> delivery, code |-> race.other.code]
            \in SequentialOutcomes
\* both requests loaded the order in processing before either wrote, the
\* cancel committed first and the verify last
C11_Witness ==
    /\ RaceDone
    /\ race.start.order.order_status = "processing"
    /\ race.steps = <<"verify_read", "cancel_read_order", "cancel_read_delivery",
                      "cancel_commit", "verify_commit">>

\* --------------------------------------- two verify requests on one order
\* Two verify requests for the order, both with a proof the gateway verifies.
\* Each loads the order, writes the payment at db.commit() and refreshes the
\* order, and then runs its shipment step on what the refresh loaded.

\* the variables no step of a verify request writes
verifyFrame == <<debug, razorpay_client, now, order_ids, created, financials, waybill_number, delivered_at>>

\* the two verify requests arrive together
StartVerifyRace ==
    /\ race = RaceIdle
    /\ created
    /\ \E nc \in BOOLEAN :
         race' = [kind |-> "verify_verify", net_change |-> nc,
                  start |-> [order |-> OrderRow, delivery |-> delivery],
                  verify |-> [NoRequest EXCEPT !.pc = "read"],
                  other |-> [NoRequest EXCEPT !.pc = "read"],
                  steps |-> <<>>, create_calls |-> 0]
    /\ UNCHANGED <<verifyFrame, shiprocket_order_id, order_status, payment_status,
                   payment_method, razorpay_payment_id, admin_notes, delivery, resp>>

\* verify_razorpay_payment of request `slot`: db.query(Order)...first()
verify_load(slot) ==
    /\ race.kind = "verify_verify"
    /\ race[slot].pc = "read"
    /\ race' = [race EXCEPT ![slot].pc = "commit", ![slot].order = OrderRow,
                            !.steps = Append(@, <<slot, "load">>)]
    /\ UNCHANGED <<verifyFrame, shiprocket_order_id, order_status, payment_status,
                   payment_method, razorpay_payment_id, admin_notes, delivery, resp>>

\* verify_razorpay_payment of request `slot`: the payment assignments,
\* db.commit() and db.refresh(order)
verify_store(slot) ==
    /\ race.kind = "verify_verify"
    /\ race[slot].pc = "commit"
    /\ WriteOrderRow(commit_order(OrderRow, race[slot].order,
                                  verify_assignments, race.net_change))
    /\ race' = [race EXCEPT ![slot].pc = "ship",
                            ![slot].ref = shiprocket_order_id,
                            !.steps = Append(@, <<slot, "store">>)]
    /\ UNCHANGED <<verifyFrame, shiprocket_order_id, delivery, resp>>

\* verify_razorpay_payment of request `slot`: the shipment step and the
\* response.  `order.shiprocket_order_id` raises AttributeError when class
\* Order does not define it; otherwise an order the refresh loaded without a
\* Shiprocket order id gets a shipment and, unless the unique order_id of
\* the deliveries table refuses it, a delivery row.
verify_ship(slot) ==
    /\ race.kind = "verify_verify"
    /\ race[slot].pc = "ship"
    /\ UNCHANGED <<verifyFrame, payment_status, payment_method,
                   razorpay_payment_id, admin_notes>>
    /\ IF "shiprocket_order_id" \notin OrderColumns
       THEN /\ race' = [race EXCEPT ![slot].pc = "done", ![slot].code = 200,
                                    !.steps = Append(@, <<slot, "ship">>)]
            /\ resp' = Response("verify", 200, TRUE, "raised")
            /\ UNCHANGED <<shiprocket_order_id, order_status, delivery>>
       ELSE IF Truthy(race[slot].ref)
       THEN /\ race' = [race EXCEPT ![slot].pc = "done", ![slot].code = 200,
                                    !.steps = Append(@, <<slot, "ship">>)]
            /\ resp' = Response("verify", 200, TRUE, "skipped")
            /\ UNCHANGED <<shiprocket_order_id, order_status, delivery>>
       ELSE \E answer \in CreateAnswers :
            LET r == shiprocket_create_shipment(debug, answer)
            IN  /\ race' = [race EXCEPT ![slot].pc = "done", ![slot].code = 200,
                                        !.create_calls = @ + 1,
                                        !.steps = Append(@, <<slot, "ship">>)]
                /\ IF r.success
                   THEN /\ shiprocket_order_id' = r.shiprocket_order_id
                        /\ order_status' = "processing"
                        /\ delivery' =
                             IF delivery = <<>>
                             THEN <<NewDelivery(r.shipment_id,
                                      PyOr(r.awb_code, r.waybill),
                                      ST_OrderPlaced, <<ST_OrderPlaced>>)>>
                             ELSE delivery
                        /\ resp' = Response("verify", 200, TRUE, "created")
                   ELSE /\ resp' = Response("verify", 200, TRUE, "failed")
                        /\ UNCHANGED <<shiprocket_order_id, order_status, delivery>>

\* the steps of either request
VerifyLoad == \E slot \in {"verify", "other"} : verify_load(slot)
VerifyStore == \E slot \in {"verify", "other"} : verify_store(slot)
VerifyShip == \E slot \in {"verify", "other"} : verify_ship(slot)

NextVerifyRace ==
    \/ IdleCreateOrder
    \/ IdleUpdateDeliveryStatus
    \/ StartVerifyRace
    \/ VerifyLoad
    \/ VerifyStore
    \/ VerifyShip
    \/ EndRace

SpecVerifyRace == Init /\ [][NextVerifyRace]_vars

====
